---- MODULE Spec2Model ----
(***************************************************************************)
(* The voting service of app.py: a Flask process with three routes         *)
(* (hello, vote_item, get_all) over a shared Redis counter store and a     *)
(* best-effort Telegram notifier.  Requests are handled concurrently; a    *)
(* handler is split at its calls to the store and to the notifier, which   *)
(* are the points where other requests interleave.                         *)
(***************************************************************************)
EXTENDS Integers, Sequences, FiniteSets, TLC

\* ---------------------------------------------------------------- bounds
NReq == 3
MaxInFlight == 2
MaxInit == 9

Req == 1..NReq
Products == {"apple", "banana"}

\* ------------------------------------------------- strings held by Redis
\* A stored value is a string, modelled as a sequence of one-character
\* strings.
Digits == <<"0", "1", "2", "3", "4", "5", "6", "7", "8", "9">>

IsDigit(c) == \E i \in 1..10 : Digits[i] = c

DigitVal(c) == (CHOOSE i \in 1..10 : Digits[i] = c) - 1

AllDigits(s) == Len(s) > 0 /\ \A i \in 1..Len(s) : IsDigit(s[i])

RECURSIVE DigitsVal(_)
DigitsVal(s) ==
    IF s = <<>> THEN 0
    ELSE DigitsVal(SubSeq(s, 1, Len(s) - 1)) * 10 + DigitVal(s[Len(s)])

RECURSIVE NatToStr(_)
NatToStr(n) ==
    IF n < 10 THEN <<Digits[n + 1]>>
    ELSE NatToStr(n \div 10) \o <<Digits[(n % 10) + 1]>>

\* The decimal string Redis stores for an integer.
IntToStr(n) == IF n < 0 THEN <<"-">> \o NatToStr(-n) ELSE NatToStr(n)

\* Redis accepts only the canonical decimal form as an integer value.
RedisIsInt(s) ==
    \/ s = <<"0">>
    \/ AllDigits(s) /\ s[1] # "0"
    \/ Len(s) > 1 /\ s[1] = "-" /\ AllDigits(Tail(s)) /\ s[2] # "0"

RedisToInt(s) == IF s[1] = "-" THEN -DigitsVal(Tail(s)) ELSE DigitsVal(s)

\* Python's int(str): surrounding blanks and a sign are accepted, and so are
\* leading zeros; anything else raises ValueError.
RECURSIVE LStrip(_)
LStrip(s) == IF s # <<>> /\ s[1] = " " THEN LStrip(Tail(s)) ELSE s

RECURSIVE RStrip(_)
RStrip(s) ==
    IF s # <<>> /\ s[Len(s)] = " " THEN RStrip(SubSeq(s, 1, Len(s) - 1)) ELSE s

Unsigned(s) == IF s # <<>> /\ s[1] \in {"+", "-"} THEN Tail(s) ELSE s

PyIntOk(s) == AllDigits(Unsigned(RStrip(LStrip(s))))

PyInt(s) ==
    LET t == RStrip(LStrip(s))
    IN  IF t[1] = "-" THEN -DigitsVal(Unsigned(t)) ELSE DigitsVal(Unsigned(t))

\* What redis_client.get returns for an absent key.
None == <<"None">>

\* ----------------------------------------------------------------- state
VARIABLES
    APP_VERSION,               \* version tag read at startup
    TELEGRAM_TOKEN,            \* notifier credential ("" when unset)
    TELEGRAM_CHAT_ID,          \* notifier destination ("" when unset)
    redis_client,              \* "bound" once the module-level name exists
    startup_log,               \* what the startup connectivity check printed
    reachable,                 \* whether the store answers at the moment
    store,                     \* the store: key -> stored string
    route,                     \* per request: the handler serving it
    product_name,              \* per request: the <product_name> of /vote
    pc,                        \* per request: position in its handler
    new_count,                 \* per request: vote_item's local new_count
    keys,                      \* per request: get_all's keys not yet read
    final_product_dictionary,  \* per request: get_all's mapping so far
    response,                  \* per request: the response returned
    posts,                     \* per request: payloads posted to Telegram
    post_result,               \* how the latest notifier call went
    store0,                    \* history: the store at startup
    pre,                       \* history: value of the key before own incr
    snap,                      \* history: the store when keys('*') ran
    read,                      \* history: what each get(key) returned
    overlapped,                \* history: ran while another request did
    store_calls,               \* history: number of store calls made
    down_call                  \* history: a store call met an unreachable store

config == <<APP_VERSION, TELEGRAM_TOKEN, TELEGRAM_CHAT_ID, redis_client,
            startup_log, store0>>
locals == <<new_count, keys, final_product_dictionary>>
notes  == <<posts, post_result>>
hist   == <<pre, snap, read>>
vars   == <<config, reachable, store, route, product_name, pc, locals,
           response, notes, hist, overlapped, store_calls, down_call>>

\* ------------------------------------------------------- store semantics
Val(st, k) == IF k \in DOMAIN st THEN st[k] ELSE None

\* The integer a stored string stands for (0 for an absent key).
Count(st, k) == IF k \in DOMAIN st THEN RedisToInt(st[k]) ELSE 0

\* INCR: an absent key counts as 0; a value that is not an integer is an
\* error and leaves the store alone.
IncrOk(st, k) == k \in DOMAIN st => RedisIsInt(st[k])

\* A write that sets the key to 1 instead of incrementing it.
IncrStoreReset(st, k) ==
    [x \in DOMAIN st \cup {k} |-> IF x = k THEN IntToStr(1) ELSE st[x]]

IncrStore(st, k) ==
    [x \in DOMAIN st \cup {k} |->
        IF x = k THEN IntToStr(Count(st, k) + 1) ELSE st[x]]

\* A reply carrying the value the key held before the increment.
IncrReplyOld(st, k) == Count(st, k)

\* The integer reply of INCR: the value after the increment.
IncrReply(st, k) == Count(IncrStore(st, k), k)

\* KEYS 'apple': a pattern that matches one key only.
KeysMatchingApple(st) == DOMAIN st \cap {"apple"}

\* KEYS '*': the pattern matches every key present.
KeysMatching(st) == DOMAIN st

\* Text of str(error_detail) for the exceptions the handlers catch.
ErrStr(exc) ==
    CASE exc = "ConnectionError" -> "Error connecting to redis"
      [] exc = "ResponseError"   -> "value is not an integer or out of range"
      [] exc = "ValueError"      -> "invalid literal for int() with base 10"
      [] exc = "NameError"       -> "name 'redis_client' is not defined"
      [] OTHER                   -> exc

\* The exception a store call raises now, or "" when it goes through.
CallError == IF redis_client # "bound" THEN "NameError"
             ELSE IF ~reachable THEN "ConnectionError"
             ELSE ""

InFlight == {q \in Req : pc[q] \notin {"idle", "done"}}

\* Requests are numbered in order of arrival.
Arrives(r) ==
    /\ pc[r] = "idle"
    /\ \A q \in Req : q < r => pc[q] # "idle"
    /\ Cardinality(InFlight) < MaxInFlight
    /\ overlapped' = [q \in Req |->
          IF q = r THEN InFlight # {} ELSE overlapped[q] \/ q \in InFlight]

Fail(r, exc) ==
    /\ pc' = [pc EXCEPT ![r] = "done"]
    /\ response' = [response EXCEPT ![r] =
                       [code |-> 500, error |-> ErrStr(exc)]]

\* ------------------------------------------------------------- startup
\* A startup that binds the name only after a successful ping().
ClientBoundAfterPing(ping_ok) == IF ping_ok THEN "bound" ELSE "unbound"

\* Lines 30-36: the name redis_client is assigned before ping() runs, so it
\* is bound whether or not the ping succeeds.
ClientAfterStartup(ping_ok) == "bound"

\* The counters the store may hold when the process starts.
InitStores == {<<>>, [k \in {"apple"} |-> IntToStr(MaxInit)]}

\* Lines 21-25: the environments the process is started in.
Environments ==
    {[version |-> "v1", token |-> "",      chat |-> ""],
     [version |-> "v1", token |-> "token", chat |-> ""],
     [version |-> "v2", token |-> "",      chat |-> "chat"],
     [version |-> "v2", token |-> "token", chat |-> "chat"]}

Init ==
    /\ \E env \in Environments :
          /\ APP_VERSION = env.version
          /\ TELEGRAM_TOKEN = env.token
          /\ TELEGRAM_CHAT_ID = env.chat
    /\ reachable \in BOOLEAN
    /\ redis_client = ClientAfterStartup(reachable)
    /\ startup_log = IF reachable THEN "connected" ELSE "failed"
    /\ store \in InitStores
    /\ store0 = store
    /\ route = [r \in Req |-> "none"]
    /\ product_name = [r \in Req |-> ""]
    /\ pc = [r \in Req |-> "idle"]
    /\ new_count = [r \in Req |-> 0]
    /\ keys = [r \in Req |-> {}]
    /\ final_product_dictionary = [r \in Req |-> <<>>]
    /\ response = [r \in Req |-> [code |-> 0]]
    /\ posts = [r \in Req |-> <<>>]
    /\ post_result = "none"
    /\ pre = [r \in Req |-> 0]
    /\ snap = [r \in Req |-> <<>>]
    /\ read = [r \in Req |-> <<>>]
    /\ overlapped = [r \in Req |-> FALSE]
    /\ store_calls = [r \in Req |-> 0]
    /\ down_call = [r \in Req |-> FALSE]

\* ------------------------------------------------------------ GET /vote
\* A vote that reads the counter and writes it back in two store calls.
VoteIncrGetSet(r, p) ==
    \/ /\ Arrives(r)
       /\ route' = [route EXCEPT ![r] = "vote_item"]
       /\ product_name' = [product_name EXCEPT ![r] = p]
       /\ store_calls' = [store_calls EXCEPT ![r] = @ + 1]
       /\ down_call' = [down_call EXCEPT ![r] = ~reachable]
       /\ pre' = [pre EXCEPT ![r] = Count(store, p)]
       /\ IF CallError # ""
            THEN Fail(r, CallError) /\ UNCHANGED new_count
            ELSE /\ new_count' = [new_count EXCEPT ![r] = Count(store, p)]
                 /\ pc' = [pc EXCEPT ![r] = "read"]
                 /\ UNCHANGED response
       /\ UNCHANGED <<config, reachable, store, keys,
                      final_product_dictionary, notes, snap, read>>
    \/ /\ pc[r] = "read"
       /\ product_name[r] = p
       /\ store_calls' = [store_calls EXCEPT ![r] = @ + 1]
       /\ down_call' = [down_call EXCEPT ![r] = ~reachable]
       /\ IF CallError # ""
            THEN Fail(r, CallError) /\ UNCHANGED <<store, new_count>>
            ELSE /\ store' = [x \in DOMAIN store \cup {p} |->
                       IF x = p THEN IntToStr(new_count[r] + 1) ELSE store[x]]
                 /\ new_count' = [new_count EXCEPT ![r] = @ + 1]
                 /\ pc' = [pc EXCEPT ![r] = "voted"]
                 /\ UNCHANGED response
       /\ UNCHANGED <<config, reachable, route, product_name, keys,
                      final_product_dictionary, notes, hist, overlapped>>

\* Line 137: new_count = redis_client.incr(product_name)
VoteIncr(r, p) ==
    /\ Arrives(r)
    /\ route' = [route EXCEPT ![r] = "vote_item"]
    /\ product_name' = [product_name EXCEPT ![r] = p]
    /\ store_calls' = [store_calls EXCEPT ![r] = @ + 1]
    /\ down_call' = [down_call EXCEPT ![r] = ~reachable]
    /\ pre' = [pre EXCEPT ![r] =
                 IF IncrOk(store, p) THEN Count(store, p) ELSE 0]
    /\ IF CallError # ""
         THEN Fail(r, CallError) /\ UNCHANGED <<store, new_count>>
       ELSE IF ~IncrOk(store, p)
         THEN Fail(r, "ResponseError") /\ UNCHANGED <<store, new_count>>
       ELSE /\ store' = IncrStore(store, p)
            /\ new_count' = [new_count EXCEPT ![r] = IncrReply(store, p)]
            /\ pc' = [pc EXCEPT ![r] = "voted"]
            /\ UNCHANGED response
    /\ UNCHANGED <<config, reachable, keys, final_product_dictionary, notes,
                   snap, read>>

\* Line 140: the f-string handed to the notifier.
VoteMessage(p, n) == <<"vote for ", p, ", total now: ">> \o IntToStr(n)

\* Lines 50-53: the JSON payload posted to Telegram.
Payload(message) ==
    [chat_id |-> TELEGRAM_CHAT_ID,
     text    |-> <<"[", APP_VERSION, "] ">> \o message]

PostOutcomes == {"delivered", "non_2xx", "network_error", "timeout"}

\* Line 56: requests.post raises on a network error or a timeout and returns
\* a response object for any HTTP status.
PostRaises(outcome) == outcome \in {"network_error", "timeout"}

\* A notifier without the try/except around requests.post.
NotifierRaisesUncaught(outcome) == PostRaises(outcome)

\* Lines 54-58: whether send_telegram_notification lets an exception out.
\* requests.post sits in a bare try/except, which swallows whatever it
\* raises.
NotifierRaises(outcome) == FALSE

\* A check that is satisfied by either credential.
ConfiguredEither == TELEGRAM_TOKEN # "" \/ TELEGRAM_CHAT_ID # ""

\* Line 46: both strings are truthy.
Configured == TELEGRAM_TOKEN # "" /\ TELEGRAM_CHAT_ID # ""

\* Lines 41-58, called from line 140.
send_telegram_notification(r) ==
    /\ pc[r] = "voted"
    /\ IF Configured
         THEN \E outcome \in PostOutcomes :
                /\ posts' = [posts EXCEPT ![r] = Append(@,
                      Payload(VoteMessage(product_name[r], new_count[r])))]
                /\ post_result' =
                      IF PostRaises(outcome) THEN "swallowed" ELSE "returned"
                /\ IF NotifierRaises(outcome)
                     THEN Fail(r, "RequestException")
                     ELSE /\ pc' = [pc EXCEPT ![r] = "notified"]
                          /\ UNCHANGED response
         ELSE /\ pc' = [pc EXCEPT ![r] = "notified"]
              /\ UNCHANGED <<posts, post_result, response>>
    /\ UNCHANGED <<config, reachable, store, route, product_name, locals,
                   hist, overlapped, store_calls, down_call>>

\* A response that reads the counter again instead of using new_count.
VoteRespondReread(r) ==
    /\ pc[r] = "notified"
    /\ pc' = [pc EXCEPT ![r] = "done"]
    /\ response' = [response EXCEPT ![r] =
          [code |-> 200, status |-> "success",
           current_count |-> Count(store, product_name[r]),
           version |-> APP_VERSION]]
    /\ UNCHANGED <<config, reachable, store, route, product_name, locals,
                   notes, hist, overlapped, store_calls, down_call>>

\* Lines 143-147: the success response of vote_item.
VoteRespond(r) ==
    /\ pc[r] = "notified"
    /\ pc' = [pc EXCEPT ![r] = "done"]
    /\ response' = [response EXCEPT ![r] =
          [code |-> 200, status |-> "success",
           current_count |-> new_count[r], version |-> APP_VERSION]]
    /\ UNCHANGED <<config, reachable, store, route, product_name, locals,
                   notes, hist, overlapped, store_calls, down_call>>

\* ------------------------------------------------------------ GET /list
\* Line 159: keys = redis_client.keys('*')
ListKeys(r) ==
    /\ Arrives(r)
    /\ route' = [route EXCEPT ![r] = "get_all"]
    /\ store_calls' = [store_calls EXCEPT ![r] = @ + 1]
    /\ down_call' = [down_call EXCEPT ![r] = ~reachable]
    /\ snap' = [snap EXCEPT ![r] = store]
    /\ IF CallError # ""
         THEN Fail(r, CallError) /\ UNCHANGED <<keys, final_product_dictionary>>
         ELSE /\ keys' = [keys EXCEPT ![r] = KeysMatching(store)]
              /\ final_product_dictionary' =
                    [final_product_dictionary EXCEPT ![r] = <<>>]
              /\ pc' = [pc EXCEPT ![r] = "listing"]
              /\ UNCHANGED response
    /\ UNCHANGED <<config, reachable, store, product_name, new_count, notes,
                   pre, read>>

\* A test that takes the default for None only.
FalsyNoneOnly(v) == v = None

\* Line 162: int(redis_client.get(key) or 0), the integer for one value
\* read.  None and the empty string are falsy and give int(0).
Falsy(v) == v = None \/ v = <<>>

IntOrZeroOk(v) == Falsy(v) \/ PyIntOk(v)

\* A conversion that always takes the default.
IntOrZeroDefault(v) == 0

IntOrZero(v) == IF Falsy(v) THEN 0 ELSE PyInt(v)

\* Line 162: one iteration of the comprehension, one get per key.
ListGet(r) ==
    /\ pc[r] = "listing"
    /\ \E key \in keys[r] :
         /\ store_calls' = [store_calls EXCEPT ![r] = @ + 1]
         /\ down_call' = [down_call EXCEPT ![r] = ~reachable]
         /\ IF CallError # ""
              THEN Fail(r, CallError)
                   /\ UNCHANGED <<keys, final_product_dictionary, read>>
            ELSE /\ read' = [read EXCEPT ![r] = @ @@ (key :> Val(store, key))]
                 /\ IF ~IntOrZeroOk(Val(store, key))
                      THEN Fail(r, "ValueError")
                           /\ UNCHANGED <<keys, final_product_dictionary>>
                      ELSE /\ final_product_dictionary' =
                                [final_product_dictionary EXCEPT ![r] =
                                   @ @@ (key :> IntOrZero(Val(store, key)))]
                           /\ keys' = [keys EXCEPT ![r] = @ \ {key}]
                           /\ UNCHANGED <<pc, response>>
    /\ UNCHANGED <<config, reachable, store, route, product_name, new_count,
                   notes, pre, snap, overlapped>>

\* Line 165: the success response of get_all.
ListRespond(r) ==
    /\ pc[r] = "listing"
    /\ keys[r] = {}
    /\ pc' = [pc EXCEPT ![r] = "done"]
    /\ response' = [response EXCEPT ![r] =
          [code |-> 200, data |-> final_product_dictionary[r],
           version |-> APP_VERSION]]
    /\ UNCHANGED <<config, reachable, store, route, product_name, locals,
                   notes, hist, overlapped, store_calls, down_call>>

\* ---------------------------------------------------------------- GET /
REDIS_HOST == "localhost"

\* Lines 63-128: the page is an f-string over APP_VERSION, the store address
\* and HOSTNAME; it is computed from the configuration alone.
HelloPage ==
    [code |-> 200, html |-> <<APP_VERSION, REDIS_HOST, "HOSTNAME">>]

\* Lines 63-128: the handler reads and writes neither the store nor any
\* request state, so serving GET / is a step that changes nothing.
hello ==
    /\ HelloPage.code = 200
    /\ UNCHANGED vars

\* ---------------------------------------------------------- environment
\* The store becomes unreachable, or reachable again, at any moment.
StoreDown ==
    /\ reachable
    /\ reachable' = FALSE
    /\ UNCHANGED <<config, store, route, product_name, pc, locals, response,
                   notes, hist, overlapped, store_calls, down_call>>

StoreUp ==
    /\ ~reachable
    /\ reachable' = TRUE
    /\ UNCHANGED <<config, store, route, product_name, pc, locals, response,
                   notes, hist, overlapped, store_calls, down_call>>

Next ==
    \/ \E r \in Req, p \in Products : VoteIncr(r, p)
    \/ \E r \in Req : send_telegram_notification(r)
    \/ \E r \in Req : VoteRespond(r)
    \/ \E r \in Req : ListKeys(r)
    \/ \E r \in Req : ListGet(r)
    \/ \E r \in Req : ListRespond(r)
    \/ hello
    \/ StoreDown
    \/ StoreUp

Spec == Init /\ [][Next]_vars

\* ------------------------------------------- a store with foreign values
\* The store is a shared service: it may hold strings that are not
\* counters, and another client may delete a key (or it may expire) at any
\* moment, which is when get(key) returns None for a key keys('*') listed.
ForeignValues ==
    {<<>>, <<"a", "b", "c">>, <<"0", "7">>, <<" ", "7">>, IntToStr(MaxInit)}

KeyExpires(k) ==
    /\ k \in DOMAIN store
    /\ store' = [x \in DOMAIN store \ {k} |-> store[x]]
    /\ UNCHANGED <<config, reachable, route, product_name, pc, locals,
                   response, notes, hist, overlapped, store_calls, down_call>>

InitForeign ==
    /\ APP_VERSION = "v1"
    /\ TELEGRAM_TOKEN = ""
    /\ TELEGRAM_CHAT_ID = ""
    /\ reachable = TRUE
    /\ redis_client = ClientAfterStartup(reachable)
    /\ startup_log = "connected"
    /\ store \in [Products -> ForeignValues]
    /\ store0 = store
    /\ route = [r \in Req |-> "none"]
    /\ product_name = [r \in Req |-> ""]
    /\ pc = [r \in Req |-> "idle"]
    /\ new_count = [r \in Req |-> 0]
    /\ keys = [r \in Req |-> {}]
    /\ final_product_dictionary = [r \in Req |-> <<>>]
    /\ response = [r \in Req |-> [code |-> 0]]
    /\ posts = [r \in Req |-> <<>>]
    /\ post_result = "none"
    /\ pre = [r \in Req |-> 0]
    /\ snap = [r \in Req |-> <<>>]
    /\ read = [r \in Req |-> <<>>]
    /\ overlapped = [r \in Req |-> FALSE]
    /\ store_calls = [r \in Req |-> 0]
    /\ down_call = [r \in Req |-> FALSE]

\* GET /list against such a store.
NextForeign ==
    \/ \E r \in Req : ListKeys(r)
    \/ \E r \in Req : ListGet(r)
    \/ \E r \in Req : ListRespond(r)
    \/ \E k \in Products : KeyExpires(k)

SpecForeign == InitForeign /\ [][NextForeign]_vars

\* ------------------------------------------------------------- vocabulary
Done(r) == pc[r] = "done"
IsVote(r) == route[r] = "vote_item"
IsList(r) == route[r] = "get_all"
Ok(r) == Done(r) /\ response[r].code = 200
Failed(r) == Done(r) /\ response[r].code = 500

\* The votes whose increment the store has applied.
Applied(p) ==
    {r \in Req : /\ IsVote(r) /\ product_name[r] = p
                 /\ (pc[r] \in {"voted", "notified"} \/ Ok(r))}

\* ------------------------------------------------------------------ C1
\* C1: a successful GET /vote/p answers 200 with current_count equal to the
\* value p held just before this request's own increment (0 when absent)
\* plus 1, so a vote for a key never seen before answers 1; the key exists
\* afterwards.
C1_OwnIncrement ==
    \A r \in Req :
        IsVote(r) /\ Ok(r) =>
            /\ response[r].current_count = pre[r] + 1
            /\ product_name[r] \in DOMAIN store
            /\ (product_name[r] \notin DOMAIN store0
                   /\ Applied(product_name[r]) = {r}
                       => response[r].current_count = 1)

C1_Witness ==
    \E r \in Req, q \in Req :
        /\ IsVote(r) /\ Ok(r) /\ IsVote(q) /\ Ok(q)
        /\ product_name[r] = "banana"
        /\ response[r].current_count = 1
        /\ "banana" \notin DOMAIN store0
        /\ product_name[q] = "apple"
        /\ response[q].current_count = MaxInit + 1
        /\ overlapped[r] /\ overlapped[q]

\* ------------------------------------------------------------------ C2
\* C2: when every request has completed and none met an unreachable store,
\* each counter p equals its initial value v plus the number N of votes for
\* p, the N responses carry exactly the counts v+1 .. v+N (hence pairwise
\* distinct), and a key nobody voted for is as it was.
C2_NoLostUpdate ==
    (\A r \in Req : Done(r) /\ ~down_call[r]) =>
        \A p \in Products :
            LET V == {r \in Req : IsVote(r) /\ product_name[r] = p}
                v == Count(store0, p)
            IN  /\ Count(store, p) = v + Cardinality(V)
                /\ {response[r].current_count : r \in V}
                      = (v + 1)..(v + Cardinality(V))
                /\ (V = {} => Val(store, p) = Val(store0, p))

C2_Witness ==
    /\ \A r \in Req : Done(r) /\ ~down_call[r] /\ IsVote(r)
    /\ \E r \in Req, q \in Req :
          /\ r # q
          /\ product_name[r] = "apple" /\ product_name[q] = "apple"
          /\ overlapped[r] /\ overlapped[q]
    /\ \E r \in Req : product_name[r] = "banana" /\ overlapped[r]
    /\ Count(store, "apple") = Count(store0, "apple") + 2

\* ------------------------------------------------------------------ C3
\* Two votes for p in sequence: r and r+1 arrive one after the other and
\* neither runs while any other request does.
InSequence(r, q) ==
    /\ q = r + 1
    /\ IsVote(r) /\ IsVote(q)
    /\ product_name[r] = product_name[q]
    /\ Ok(r) /\ Ok(q)
    /\ ~overlapped[r] /\ ~overlapped[q]

\* C3 as stated: two votes for p in sequence yield n then n+1, n the value
\* of p before the first vote.
C3_AsStated ==
    \A r \in Req, q \in Req :
        InSequence(r, q) =>
            /\ response[r].current_count = pre[r]
            /\ response[q].current_count = pre[r] + 1

\* C3 (amended): two votes for p in sequence yield n+1 then n+2, n the value
\* of p before the first vote.
C3_Sequential ==
    \A r \in Req, q \in Req :
        InSequence(r, q) =>
            /\ response[r].current_count = pre[r] + 1
            /\ response[q].current_count = pre[r] + 2

C3_Witness ==
    \E r \in Req, q \in Req :
        /\ InSequence(r, q)
        /\ pre[r] = MaxInit
        /\ response[q].current_count = MaxInit + 2

\* ------------------------------------------------------------------ C4
\* The mapping a list request has built, or returned.
Data(r) == IF Ok(r) THEN response[r].data ELSE final_product_dictionary[r]

\* C4 as stated: /list answers 200 and maps every key whose value is
\* missing or is no integer to 0.
C4_AsStated ==
    \A r \in Req :
        IsList(r) /\ Done(r) =>
            /\ response[r].code = 200
            /\ \A k \in DOMAIN read[r] :
                  (read[r][k] = None \/ ~PyIntOk(read[r][k]))
                      => response[r].data[k] = 0

\* C4 (amended): /list maps a key whose value is missing or is the empty
\* string to 0; a value int() accepts is mapped to that integer; a non-empty
\* value int() rejects makes /list answer 500 with a non-empty error, and
\* nothing else does while the store is reachable.
C4_MissingOrEmptyIsZero ==
    \A r \in Req :
        IsList(r) =>
            /\ \A k \in DOMAIN read[r] :
                  LET v == read[r][k]
                  IN  /\ v \in {None, <<>>} =>
                            k \in DOMAIN Data(r) /\ Data(r)[k] = 0
                      /\ v \in {<<"0", "7">>, <<" ", "7">>} =>
                            k \in DOMAIN Data(r) /\ Data(r)[k] = 7
                      /\ v = IntToStr(MaxInit) =>
                            k \in DOMAIN Data(r) /\ Data(r)[k] = MaxInit
                      /\ v = <<"a", "b", "c">> =>
                            /\ Failed(r)
                            /\ k \notin DOMAIN Data(r)
                            /\ response[r].error # ""
            /\ Failed(r) => \E k \in DOMAIN read[r] : read[r][k] = <<"a", "b", "c">>
            /\ Ok(r) => DOMAIN response[r].data = DOMAIN snap[r]

C4_Witness ==
    \E r \in Req, q \in Req :
        /\ IsList(r) /\ Ok(r)
        /\ \E k \in DOMAIN read[r] :
              read[r][k] = None /\ response[r].data[k] = 0
        /\ \E k \in DOMAIN read[r] :
              read[r][k] = <<>> /\ response[r].data[k] = 0
        /\ IsList(q) /\ Failed(q)
        /\ \E k \in DOMAIN read[q] : read[q][k] = <<"a", "b", "c">>

\* ------------------------------------------------------------------ C5
\* C5: a request answers 500 exactly when one of its store calls met an
\* unreachable store, the 500 body has a non-empty error, a failed request
\* changes no counter (each counter is its initial value plus the votes the
\* store applied), and requests whose calls all found the store reachable
\* succeed, whatever failed before them and whether or not the startup check
\* failed.
C5_OutageIs500 ==
    /\ \A r \in Req :
          Done(r) =>
              /\ response[r].code = (IF down_call[r] THEN 500 ELSE 200)
              /\ Failed(r) => response[r].error # ""
    /\ \A p \in Products :
          Count(store, p) = Count(store0, p) + Cardinality(Applied(p))

C5_Witness ==
    /\ startup_log = "failed"
    /\ Failed(1) /\ IsVote(1) /\ product_name[1] = "apple"
    /\ Ok(2) /\ IsVote(2) /\ product_name[2] = "apple"
    /\ response[2].current_count = Count(store0, "apple") + 1
    /\ Ok(3) /\ IsList(3)
    /\ response[3].data["apple"] = Count(store0, "apple") + 1

\* ------------------------------------------------------------------ C6
\* C6: a vote whose increment succeeded answers 200 "success" with the
\* incremented count whatever the notifier did, and the counter carries that
\* increment exactly once.
C6_NotifierIndependent ==
    /\ \A r \in Req :
          IsVote(r) /\ new_count[r] > 0 /\ Done(r) =>
              /\ response[r].code = 200
              /\ response[r].status = "success"
              /\ response[r].current_count = pre[r] + 1
    /\ \A p \in Products :
          Count(store, p) = Count(store0, p)
              + Cardinality({r \in Req : /\ IsVote(r)
                                         /\ product_name[r] = p
                                         /\ new_count[r] > 0})

C6_Witness ==
    /\ post_result = "swallowed"
    /\ Ok(1) /\ IsVote(1) /\ Len(posts[1]) = 1
    /\ response[1].current_count = pre[1] + 1
    /\ pc[2] = "idle"

\* ------------------------------------------------------------------ C7
\* The successful votes for k that arrived before request r.
VotedBefore(r, k) ==
    {q \in Req : q < r /\ IsVote(q) /\ product_name[q] = k /\ Ok(q)}

\* C7: a /list that runs while no other request does answers 200 with the
\* version tag and a mapping whose keys are exactly the keys in the store
\* and whose values are their counts: every prior key with its prior value
\* plus the votes cast for it, every voted key included.
C7_QuiescentList ==
    \A r \in Req :
        IsList(r) /\ Ok(r) /\ ~overlapped[r] =>
            LET data == response[r].data
            IN  /\ response[r].version = APP_VERSION
                /\ DOMAIN data = DOMAIN snap[r]
                /\ DOMAIN data = DOMAIN store0
                      \cup {k \in Products : VotedBefore(r, k) # {}}
                /\ \A k \in DOMAIN data :
                      /\ data[k] = Count(snap[r], k)
                      /\ data[k] = Count(store0, k)
                                      + Cardinality(VotedBefore(r, k))

C7_Witness ==
    /\ IsVote(1) /\ Ok(1) /\ IsVote(2) /\ Ok(2)
    /\ product_name[1] = "banana" /\ product_name[2] = "apple"
    /\ IsList(3) /\ Ok(3) /\ ~overlapped[3]
    /\ DOMAIN store0 = {"apple"}
    /\ response[3].data["apple"] = MaxInit + 1
    /\ response[3].data["banana"] = 1

\* ------------------------------------------------------------------ C8
\* One step of the system, as far as the counters go.
FrameStep ==
    /\ \A k \in DOMAIN store :
          k \in DOMAIN store' /\ Count(store', k) >= Count(store, k)
    /\ store' # store =>
          \E r \in Req, p \in Products :
              /\ pc[r] = "idle"
              /\ route'[r] = "vote_item"
              /\ product_name'[r] = p
              /\ DOMAIN store' = DOMAIN store \cup {p}
              /\ Count(store', p) = Count(store, p) + 1
              /\ \A k \in DOMAIN store \ {p} : store'[k] = store[k]
    /\ (\E r \in Req : route'[r] = "get_all" /\ pc'[r] # pc[r])
          => store' = store

\* C8: only a vote's increment changes the store: a step of /list (and of
\* GET /, which answers 200 from the configuration alone) leaves every
\* counter and the key set as they are, a vote changes only its own counter
\* and only by +1, no key disappears and no counter decreases or is
\* negative.
C8_Frame ==
    /\ [](/\ HelloPage.code = 200
          /\ \A k \in DOMAIN store : Count(store, k) >= 0)
    /\ [][FrameStep]_vars

C8_Witness ==
    /\ ~reachable
    /\ \E r \in Req : IsList(r) /\ Ok(r)
    /\ \E r \in Req : IsList(r) /\ Failed(r)
    /\ \E r \in Req : IsVote(r) /\ Ok(r) /\ response[r].current_count = 1
    /\ store # store0

\* ------------------------------------------------------------------ C9
\* The text a notification for request r must carry.
ExpectedText(r, n) ==
    <<"[", APP_VERSION, "] ", "vote for ", product_name[r], ", total now: ">>
        \o IntToStr(n)

\* C9: a vote makes exactly one notification attempt when its increment
\* succeeded and both credentials are non-empty, and none otherwise; the
\* attempt comes after the increment and before the response, and its text
\* is the bracketed version tag followed by the product and the count that
\* increment returned.
C9_OneAttempt ==
    \A r \in Req :
        LET creds == TELEGRAM_TOKEN # "" /\ TELEGRAM_CHAT_ID # ""
        IN  /\ pc[r] \in {"idle", "voted", "listing"} => posts[r] = <<>>
            /\ IsList(r) \/ Failed(r) => posts[r] = <<>>
            /\ pc[r] = "notified" \/ (IsVote(r) /\ Ok(r)) =>
                  /\ Len(posts[r]) = (IF creds THEN 1 ELSE 0)
                  /\ creds =>
                        /\ posts[r][1].text = ExpectedText(r, new_count[r])
                        /\ posts[r][1].chat_id = TELEGRAM_CHAT_ID
            /\ IsVote(r) /\ Ok(r) /\ creds =>
                  posts[r][1].text = ExpectedText(r, response[r].current_count)

C9_Witness ==
    /\ TELEGRAM_TOKEN # "" /\ TELEGRAM_CHAT_ID # ""
    /\ IsVote(1) /\ Ok(1) /\ Len(posts[1]) = 1
    /\ posts[1][1].text =
          <<"[", "v2", "] ", "vote for ", "apple", ", total now: ", "1", "0">>
    /\ IsVote(2) /\ Failed(2) /\ posts[2] = <<>>

\* ----------------------------------------------------------------- C10
\* C10: a /list makes one store call to enumerate and one per key, so its
\* mapping holds exactly the keys present at the enumeration (a key created
\* later is absent), and each value lies between the key's value at the
\* enumeration and its value now.
C10_BoundedPerKey ==
    \A r \in Req :
        IsList(r) /\ (pc[r] = "listing" \/ Ok(r)) =>
            /\ DOMAIN Data(r) \subseteq DOMAIN snap[r]
            /\ store_calls[r] = 1 + Cardinality(DOMAIN Data(r))
            /\ Ok(r) => DOMAIN Data(r) = DOMAIN snap[r]
            /\ \A k \in DOMAIN Data(r) :
                  /\ Count(snap[r], k) <= Data(r)[k]
                  /\ Data(r)[k] <= Count(store, k)

C10_Witness ==
    \E r \in Req :
        /\ IsList(r) /\ Ok(r)
        /\ DOMAIN response[r].data = {"apple"}
        /\ response[r].data["apple"] > Count(snap[r], "apple")
        /\ "banana" \in DOMAIN store
        /\ store_calls[r] = 2

====
